---- MODULE Spec2Model ----
(***************************************************************************)
(* Model of the AFM short-positions scraper: the normalizers, the column   *)
(* resolver and the record extractors of afm_scraper.py and                *)
(* article_builder.py, and the scrape_short_positions control flow.        *)
(*                                                                         *)
(* Python str values are sequences of one-character strings, so that the   *)
(* substring tests, regular expressions and format conversions of the code *)
(* are computed character by character.  Column indices are 0-based as in  *)
(* the code; cell i of a row r is r[i + 1].                                *)
(***************************************************************************)
EXTENDS Integers, Sequences, FiniteSets, TLC

VARIABLES
    pc,             \* control position of the running function
    impl,           \* module whose scrape_short_positions runs: "afm_scraper" / "article_builder"
    BYPASS_FILTER,  \* afm_scraper.py:19, read from the environment at import
    soup_tables,    \* <table> elements of the fetched page (BeautifulSoup document)
    soup_links,     \* <a href> elements of the fetched page
    tbl,            \* table chosen by _pick_best_table, or None
    csv_url,        \* link found by _find_download_link / _find_csv_url, or None
    hmap,           \* column map of _header_map (role -> 0-based column)
    rows,           \* rows the running extractor has still to iterate
    seen,           \* rows-seen counter of the running extractor
    results,        \* records appended so far (results / out)
    exc,            \* exception propagated out of scrape_short_positions, or "none"
    caught,         \* exception swallowed by the CSV try/except of afm_scraper, or "none"
    csv_text,       \* decoded CSV payload
    page_shape,     \* history: what the HTML flow was given ("unread", "no_table", "no_rows", "rows")
    strategyB,      \* history: _header_map went past its early return into the first-row heuristic
    strftime_pads,  \* platform: whether strftime("%Y") zero-pads years below 1000
    fn_in,          \* argument of the normalizer under test
    fn_out,         \* its return value
    entry,          \* entry point that was called: "fetch_items", "process_new_entries", "publish_to_wordpress"
    MAX_POSTS_PER_RUN, \* publisher.py:16 / config.py:15, read from the environment at import
    arg,            \* argument of publish_to_wordpress: a list of items or one payload
    calls,          \* history: the calls of _post_to_wordpress so far, with what the server answered
    created,        \* counter of publish_items
    ret,            \* value the entry point returned or reported, -1 before
    wp_posts,       \* REST endpoint: number of posts whose content carries the marker of a uid
    scraped,        \* records process_new_entries has still to iterate
    posted,         \* counter of process_new_entries
    handed          \* history: records process_new_entries passed to build_article

vars == <<pc, impl, BYPASS_FILTER, soup_tables, soup_links, tbl, csv_url, hmap, rows, seen,
          results, exc, caught, csv_text, page_shape, strategyB, strftime_pads,
          fn_in, fn_out, entry, MAX_POSTS_PER_RUN, arg, calls, created, ret, wp_posts,
          scraped, posted, handed>>

\* Python None (distinct from every str, which holds one-character strings only)
None == <<"None">>

\* ------------------------------------------------------------------ bounds
\* rows per table / per CSV payload
MaxRows == 2
\* last year of the dates given to _parse_date
MaxYear == 2025
\* largest MAX_POSTS_PER_RUN the environment sets
MaxCap == 2
\* items per list given to publish_items
MaxItems == 2

\* ------------------------------------------------------------- characters
Digits == {"0", "1", "2", "3", "4", "5", "6", "7", "8", "9"}
DigitSeq == <<"0", "1", "2", "3", "4", "5", "6", "7", "8", "9">>
UpperSeq == <<"A", "B", "C", "D", "E", "F", "G", "H", "I", "J", "K", "L", "M", "N", "O", "P", "Q", "R", "S", "T", "U", "V", "W", "X", "Y", "Z">>
LowerSeq == <<"a", "b", "c", "d", "e", "f", "g", "h", "i", "j", "k", "l", "m", "n", "o", "p", "q", "r", "s", "t", "u", "v", "w", "x", "y", "z">>
Whitespace == {" ", "\t", "\n", "\r"}

IsDigit(c) == c \in Digits
IsWs(c) == c \in Whitespace
DigitVal(c) == (CHOOSE i \in 1..10 : DigitSeq[i] = c) - 1
DigitChar(n) == DigitSeq[n + 1]

\* str.lower()
LowerChar(c) ==
    IF \E i \in 1..26 : UpperSeq[i] = c
    THEN LowerSeq[CHOOSE i \in 1..26 : UpperSeq[i] = c]
    ELSE c
Lower(s) == [i \in 1..Len(s) |-> LowerChar(s[i])]

\* `sub in s`
StartsAt(sub, s, i) ==
    /\ i + Len(sub) - 1 <= Len(s)
    /\ \A k \in 1..Len(sub) : s[i + k - 1] = sub[k]
Contains(sub, s) == \E i \in 1..(Len(s) + 1) : StartsAt(sub, s, i)
StartsWith(s, pre) == StartsAt(pre, s, 1)

\* str.strip()
Strip(s) ==
    IF \A i \in 1..Len(s) : IsWs(s[i]) THEN <<>>
    ELSE LET a == CHOOSE i \in 1..Len(s) :
                      /\ ~IsWs(s[i])
                      /\ \A j \in 1..(i - 1) : IsWs(s[j])
             b == CHOOSE i \in 1..Len(s) :
                      /\ ~IsWs(s[i])
                      /\ \A j \in (i + 1)..Len(s) : IsWs(s[j])
         IN SubSeq(s, a, b)

\* re.sub(r"\s+", " ", s)
CollapseWs(s) ==
    LET F[i \in 0..Len(s)] ==
            IF i = 0 THEN <<>>
            ELSE IF IsWs(s[i])
                 THEN IF i > 1 /\ IsWs(s[i - 1]) THEN F[i - 1] ELSE Append(F[i - 1], " ")
                 ELSE Append(F[i - 1], s[i])
    IN F[Len(s)]

\* str.replace(old, new) for a one-character old; new is a str (possibly empty)
Replace(s, old, new) ==
    LET F[i \in 0..Len(s)] ==
            IF i = 0 THEN <<>>
            ELSE IF s[i] = old THEN F[i - 1] \o new ELSE Append(F[i - 1], s[i])
    IN F[Len(s)]

_clean_text(x) == CollapseWs(Strip(IF x = None THEN <<>> ELSE x))

_clean(x) == CollapseWs(Strip(IF x = None THEN <<>> ELSE x))

\* value of a run of decimal digits
RECURSIVE DigitsVal(_)
DigitsVal(s) == IF s = <<>> THEN 0 ELSE 10 * DigitsVal(SubSeq(s, 1, Len(s) - 1)) + DigitVal(s[Len(s)])

AllDigits(s) == \A i \in 1..Len(s) : IsDigit(s[i])

RECURSIVE Pow10(_)
Pow10(n) == IF n = 0 THEN 1 ELSE 10 * Pow10(n - 1)

\* ------------------------------------------------------------- normalizers
\* A Python float read from a decimal literal: (-1)^neg * mant / 10^scale
Num(neg, mant, scale) == [neg |-> neg, mant |-> mant, scale |-> scale]
Zero == Num(FALSE, 0, 0)
NumEq(a, b) ==
    /\ a.mant * Pow10(b.scale) = b.mant * Pow10(a.scale)
    /\ (a.mant = 0 \/ a.neg = b.neg)
\* 0 <= v <= 100
InPercentRange(v) ==
    /\ v.mant = 0 \/ ~v.neg
    /\ v.mant <= 100 * Pow10(v.scale)

\* float(s) on a str over the modelled alphabet (no exponent, inf, nan or
\* underscore forms): [ok |-> FALSE] stands for ValueError
FloatOf(s) ==
    LET t    == Strip(s)
        neg  == t # <<>> /\ t[1] = "-"
        body == IF t # <<>> /\ t[1] \in {"+", "-"} THEN Tail(t) ELSE t
        dots == {i \in 1..Len(body) : body[i] = "."}
    IN IF body = <<>> THEN [ok |-> FALSE]
       ELSE IF AllDigits(body) THEN [ok |-> TRUE, val |-> Num(neg, DigitsVal(body), 0)]
       ELSE IF /\ Cardinality(dots) = 1
               /\ Len(body) >= 2
               /\ \A i \in 1..Len(body) : i \in dots \/ IsDigit(body[i])
            THEN LET d  == CHOOSE i \in dots : TRUE
                     ip == SubSeq(body, 1, d - 1)
                     fp == SubSeq(body, d + 1, Len(body))
                 IN [ok |-> TRUE, val |-> Num(neg, DigitsVal(ip \o fp), Len(fp))]
            ELSE [ok |-> FALSE]

\* afm_scraper._pct_to_float
_pct_to_float(p) ==
    IF p = None \/ p = <<>> THEN Zero
    ELSE LET s == Strip(Replace(Replace(p, "%", <<>>), ",", <<".">>))
             f == FloatOf(s)
         IN IF f.ok THEN f.val ELSE Zero

\* end of the maximal run of digits of s that starts at i
DigitRunEnd(s, i) ==
    CHOOSE j \in i..Len(s) :
        /\ \A k \in i..j : IsDigit(s[k])
        /\ j = Len(s) \/ ~IsDigit(s[j + 1])

\* article_builder._pct_to_float: re.search(r"(\d+(?:\.\d+)?)", s)
ab_pct_to_float(p) ==
    IF p = None THEN Zero
    ELSE LET s == Strip(Replace(Replace(p, "%", <<>>), ",", <<".">>))
         IN IF ~\E i \in 1..Len(s) : IsDigit(s[i]) THEN Zero
            ELSE LET a == CHOOSE i \in 1..Len(s) :
                              IsDigit(s[i]) /\ \A j \in 1..(i - 1) : ~IsDigit(s[j])
                     b == DigitRunEnd(s, a)
                     ip == SubSeq(s, a, b)
                 IN IF b + 2 <= Len(s) /\ s[b + 1] = "." /\ IsDigit(s[b + 2])
                    THEN LET c == DigitRunEnd(s, b + 2)
                             fp == SubSeq(s, b + 2, c)
                         IN Num(FALSE, DigitsVal(ip \o fp), Len(fp))
                    ELSE Num(FALSE, DigitsVal(ip), 0)

\* --- dates
IsLeap(y) == (y % 4 = 0 /\ y % 100 # 0) \/ y % 400 = 0
DaysIn(y, m) ==
    IF m = 2 THEN (IF IsLeap(y) THEN 29 ELSE 28)
    ELSE IF m \in {4, 6, 9, 11} THEN 30 ELSE 31

Pad2(n) == <<DigitChar(n \div 10), DigitChar(n % 10)>>
Pad4(n) == <<DigitChar(n \div 1000), DigitChar((n \div 100) % 10),
             DigitChar((n \div 10) % 10), DigitChar(n % 10)>>
RECURSIVE Unpadded(_)
Unpadded(n) == IF n < 10 THEN <<DigitChar(n)>> ELSE Append(Unpadded(n \div 10), DigitChar(n % 10))

\* strftime("%Y-%m-%d"): %m and %d are zero-padded; %Y of a year below 1000
\* is zero-padded or not depending on the C library
Strftime(y, m, d) ==
    (IF y >= 1000 \/ strftime_pads THEN Pad4(y) ELSE Unpadded(y)) \o <<"-">> \o Pad2(m) \o <<"-">> \o Pad2(d)

\* the fields of s split at the separator character sep
SplitOn(s, sep) ==
    LET at  == {i \in 1..Len(s) : s[i] = sep}
        n   == Cardinality(at)
        \* position of the k-th separator; 0 and Len(s) + 1 bound the text
        pos(k) == IF k = 0 THEN 0
                  ELSE IF k = n + 1 THEN Len(s) + 1
                  ELSE CHOOSE p \in at : Cardinality({q \in at : q < p}) = k - 1
    IN [k \in 1..(n + 1) |-> SubSeq(s, pos(k - 1) + 1, pos(k) - 1)]

\* strptime directives: %d is 3[0-1]|[1-2]\d|0[1-9]|[1-9]| [1-9], %m is
\* 1[0-2]|0[1-9]|[1-9], %Y is \d\d\d\d
IsDayField(f) ==
    \/ Len(f) = 2 /\ AllDigits(f) /\ DigitsVal(f) \in 1..31
    \/ Len(f) = 1 /\ AllDigits(f) /\ DigitsVal(f) \in 1..9
    \/ Len(f) = 2 /\ f[1] = " " /\ IsDigit(f[2]) /\ f[2] # "0"
IsMonthField(f) ==
    \/ Len(f) = 2 /\ AllDigits(f) /\ DigitsVal(f) \in 1..12
    \/ Len(f) = 1 /\ AllDigits(f) /\ DigitsVal(f) \in 1..9
IsYearField(f) == Len(f) = 4 /\ AllDigits(f)
FieldVal(f) == DigitsVal(SelectSeq(f, IsDigit))

\* datetime.strptime(raw, fmt).strftime("%Y-%m-%d") for the three formats
\* of the code; [ok |-> FALSE] stands for ValueError
Strptime(raw, fmt) ==
    LET sep == IF fmt = "%d/%m/%Y" THEN "/" ELSE "-"
        p   == SplitOn(raw, sep)
        fd  == IF fmt = "%Y-%m-%d" THEN p[3] ELSE p[1]
        fy  == IF fmt = "%Y-%m-%d" THEN p[1] ELSE p[3]
    IN IF Len(p) # 3 THEN [ok |-> FALSE]
       ELSE IF ~(IsDayField(fd) /\ IsMonthField(p[2]) /\ IsYearField(fy)) THEN [ok |-> FALSE]
       ELSE LET y == FieldVal(fy)
                m == FieldVal(p[2])
                d == FieldVal(fd)
            IN IF y < 1 \/ d > DaysIn(y, m) THEN [ok |-> FALSE]
               ELSE [ok |-> TRUE, iso |-> Strftime(y, m, d)]

IsDateSep(c) == c \in {"-", "/"}
DigitsAt(s, i, n) == i + n - 1 <= Len(s) /\ \A k \in i..(i + n - 1) : IsDigit(s[k])
\* (\d{2})[-/](\d{2})[-/](\d{4}) matches at i
MatchDMY(s, i) ==
    /\ DigitsAt(s, i, 2) /\ i + 2 <= Len(s) /\ IsDateSep(s[i + 2])
    /\ DigitsAt(s, i + 3, 2) /\ i + 5 <= Len(s) /\ IsDateSep(s[i + 5])
    /\ DigitsAt(s, i + 6, 4)
\* (\d{4})[-/](\d{2})[-/](\d{2}) matches at i
MatchYMD(s, i) ==
    /\ DigitsAt(s, i, 4) /\ i + 4 <= Len(s) /\ IsDateSep(s[i + 4])
    /\ DigitsAt(s, i + 5, 2) /\ i + 7 <= Len(s) /\ IsDateSep(s[i + 7])
    /\ DigitsAt(s, i + 8, 2)
\* \d{2}[-/]\d{2}[-/]\d{2,4} matches at i
MatchDMYshort(s, i) ==
    /\ DigitsAt(s, i, 2) /\ i + 2 <= Len(s) /\ IsDateSep(s[i + 2])
    /\ DigitsAt(s, i + 3, 2) /\ i + 5 <= Len(s) /\ IsDateSep(s[i + 5])
    /\ DigitsAt(s, i + 6, 2)
\* leftmost match, as re.search finds it
First(s, M(_, _)) == CHOOSE i \in 1..Len(s) : M(s, i) /\ \A j \in 1..(i - 1) : ~M(s, j)

\* a variant without the regular-expression fallback
ParseDateIso_strptime_only(raw) ==
    LET r1 == Strptime(raw, "%d-%m-%Y")
        r2 == Strptime(raw, "%Y-%m-%d")
        r3 == Strptime(raw, "%d/%m/%Y")
    IN IF r1.ok THEN r1.iso ELSE IF r2.ok THEN r2.iso ELSE IF r3.ok THEN r3.iso ELSE raw

\* the formats tried in order, then the two regular expressions
ParseDateIso(raw) ==
    LET r1 == Strptime(raw, "%d-%m-%Y")
        r2 == Strptime(raw, "%Y-%m-%d")
        r3 == Strptime(raw, "%d/%m/%Y")
    IN IF r1.ok THEN r1.iso
       ELSE IF r2.ok THEN r2.iso
       ELSE IF r3.ok THEN r3.iso
       ELSE IF \E i \in 1..Len(raw) : MatchDMY(raw, i)
            THEN LET i == First(raw, MatchDMY)
                 IN SubSeq(raw, i + 6, i + 9) \o <<"-">> \o SubSeq(raw, i + 3, i + 4)
                        \o <<"-">> \o SubSeq(raw, i, i + 1)
       ELSE IF \E i \in 1..Len(raw) : MatchYMD(raw, i)
            THEN LET i == First(raw, MatchYMD)
                 IN SubSeq(raw, i, i + 3) \o <<"-">> \o SubSeq(raw, i + 5, i + 6)
                        \o <<"-">> \o SubSeq(raw, i + 8, i + 9)
       ELSE raw

\* afm_scraper._parse_date: (raw, iso)
_parse_date(d) == LET raw == _clean_text(d) IN <<raw, ParseDateIso(raw)>>

\* article_builder._parse_date: (raw, iso)
ab_parse_date(d) == LET raw == _clean(d) IN <<raw, ParseDateIso(raw)>>

\* ------------------------------------------------------------- HTML flow
\* A <table> element:
\*   thead  - the header row is wrapped in <thead>
\*   tbody  - the body rows are wrapped in <tbody>
\*   hcell  - tag of the header row's cells, "th" or "td"; "none": no header row
\*   heads  - texts of the header row's cells
\*   body   - the rows after the header row, each a sequence of <td> texts
Table(thead, tbody, hcell, heads, body) ==
    [thead |-> thead, tbody |-> tbody, hcell |-> hcell, heads |-> heads, body |-> body]
\* Python None where a table is expected
NoTable == Table(FALSE, FALSE, "absent", <<>>, <<>>)

EmptyMap == [r \in {} |-> 0]
\* dict.get(key, default)
Get(d, k, default) == IF k \in DOMAIN d THEN d[k] ELSE default
\* d[k] = v
Put(d, k, v) == [x \in DOMAIN d \cup {k} |-> IF x = k THEN v ELSE d[x]]
\* d.setdefault(k, v)
SetDefault(d, k, v) == IF k \in DOMAIN d THEN d ELSE Put(d, k, v)

MapSeq(f(_), s) == [i \in 1..Len(s) |-> f(s[i])]
SetMax(S) == CHOOSE x \in S : \A y \in S : y <= x
SetMin(S) == CHOOSE x \in S : \A y \in S : x <= y

\* thead.find_all("th") when there is a <thead>, else the th/td cells of the
\* first <tr> of the table
_table_headers(t) ==
    IF t.thead
    THEN IF t.hcell = "th" THEN MapSeq(_clean_text, t.heads) ELSE <<>>
    ELSE IF t.hcell # "none" THEN MapSeq(_clean_text, t.heads)
         ELSE IF t.body # <<>> THEN MapSeq(_clean_text, t.body[1])
         ELSE <<>>

\* the <tr> of <tbody> (of the whole table when there is no <tbody>) that
\* hold <td> cells
_iter_rows(t) ==
    IF t.tbody THEN t.body
    ELSE IF t.hcell = "td" /\ t.heads # <<>> THEN <<t.heads>> \o t.body
         ELSE t.body

ScoreKeys == <<<<"n", "e", "t", "t", "o">>, <<"s", "h", "o", "r", "t">>, <<"p", "o", "s", "i", "t", "i", "e">>, <<"s", "h", "o", "r", "t", "p", "o", "s", "i", "t", "i", "e">>, <<"p", "a", "r", "t", "i", "j">>,
               <<"d", "a", "t", "u", "m">>, <<"i", "s", "s", "u", "e", "r">>, <<"u", "i", "t", "g", "e", "v", "e", "n", "d", "e">>>>

_score_table(headers_lower) ==
    Cardinality({<<h, k>> \in (1..Len(headers_lower)) \X (1..Len(ScoreKeys)) :
                     Contains(ScoreKeys[k], headers_lower[h])})

\* the first table with the highest score; None when the page has no table
_pick_best_table(tables) ==
    IF tables = <<>> THEN NoTable
    ELSE LET score(i) == _score_table(MapSeq(Lower, _table_headers(tables[i])))
             best == SetMax({score(i) : i \in 1..Len(tables)})
         IN tables[SetMin({i \in 1..Len(tables) : score(i) = best})]

KwIssuer == {<<"u", "i", "t", "g", "e", "v", "e", "n", "d", "e", " ", "i", "n", "s", "t", "e", "l", "l", "i", "n", "g">>, <<"i", "s", "s", "u", "e", "r">>, <<"u", "i", "t", "g", "e", "v", "e", "n", "d", "e">>}
KwIsin == {<<"i", "s", "i", "n">>}
KwShortSeller == {<<"p", "a", "r", "t", "i", "j">>, <<"s", "h", "o", "r", "t">>, <<"m", "e", "l", "d", "i", "n", "g", "s", "p", "l", "i", "c", "h", "t", "i", "g", "e">>, <<"h", "o", "u", "d", "e", "r">>}
KwNetShortPct == {<<"n", "e", "t", "t", "o">>, <<"s", "h", "o", "r", "t", "p", "o", "s", "i", "t", "i", "e">>, <<"%">>}
KwDate == {<<"d", "a", "t", "u", "m">>, <<"d", "a", "t", "e">>}

AnyIn(kws, txt) == \E k \in kws : Contains(k, txt)

\* the if/elif chain of _header_map for one lower-cased header
HeaderRole(txt) ==
    IF AnyIn(KwIssuer, txt) THEN "issuer"
    ELSE IF AnyIn(KwIsin, txt) THEN "isin"
    ELSE IF AnyIn(KwShortSeller, txt) THEN "short_seller"
    ELSE IF AnyIn(KwNetShortPct, txt) THEN "net_short_pct"
    ELSE IF AnyIn(KwDate, txt) THEN "date"
    ELSE "none"

Roles == {"issuer", "isin", "short_seller", "net_short_pct", "date"}

\* the header loop: a later header of the same role overwrites the index
HeaderLoop(headers_lower) ==
    LET role == MapSeq(HeaderRole, headers_lower)
        has  == {r \in Roles : \E i \in 1..Len(role) : role[i] = r}
    IN [r \in has |-> SetMax({i \in 1..Len(role) : role[i] = r}) - 1]

\* re.search(r"\d[\d\.,]*\s*%", t)
HasPct(t) ==
    \E i \in 1..Len(t) :
        /\ IsDigit(t[i])
        /\ \E j \in (i + 1)..Len(t) :
              /\ t[j] = "%"
              /\ \E k \in i..(j - 1) :
                    /\ \A x \in (i + 1)..k : IsDigit(t[x]) \/ t[x] \in {".", ","}
                    /\ \A x \in (k + 1)..(j - 1) : IsWs(t[x])

\* re.search(r"\d{2}[-/]\d{2}[-/]\d{2,4}|\d{4}[-/]\d{2}[-/]\d{2}", t)
HasDate(t) == \E i \in 1..Len(t) : MatchDMYshort(t, i) \/ MatchYMD(t, i)

\* 0-based index of the first element of texts that satisfies P
FirstIdx(texts, P(_)) == SetMin({i \in 1..Len(texts) : P(texts[i])}) - 1

\* the first-row heuristic of _header_map, given the header-loop map
FirstRowHeuristic(idx0, texts) ==
    LET idx1 == IF \E i \in 1..Len(texts) : HasPct(texts[i])
                THEN SetDefault(idx0, "net_short_pct", FirstIdx(texts, HasPct))
                ELSE idx0
        idx2 == IF \E i \in 1..Len(texts) : HasDate(texts[i])
                THEN SetDefault(idx1, "date", FirstIdx(texts, HasDate))
                ELSE idx1
        idx3 == IF "issuer" \notin DOMAIN idx2 /\ texts # <<>>
                THEN Put(idx2, "issuer", 0)
                ELSE idx2
        cand == {<<Len(texts[i + 1]), i>> : i \in
                    {j \in 0..(Len(texts) - 1) :
                        /\ j # Get(idx3, "issuer", -1)
                        /\ j # Get(idx3, "net_short_pct", -1)
                        /\ j # Get(idx3, "date", -1)}}
        \* max() of (length, index) tuples
        top  == CHOOSE c \in cand :
                    \A o \in cand : o[1] < c[1] \/ (o[1] = c[1] /\ o[2] <= c[2])
    IN IF "short_seller" \notin DOMAIN idx3 /\ cand # {}
       THEN Put(idx3, "short_seller", top[2])
       ELSE idx3

HeaderMatchEnough(idx) == {"issuer", "short_seller", "net_short_pct"} \subseteq DOMAIN idx

\* _header_map: the column map, and whether the first-row heuristic was entered
_header_map(t) ==
    LET idx0 == HeaderLoop(MapSeq(Lower, _table_headers(t)))
        data == _iter_rows(t)
    IN IF HeaderMatchEnough(idx0) THEN [idx |-> idx0, heuristic |-> FALSE]
       ELSE IF data = <<>> THEN [idx |-> idx0, heuristic |-> TRUE]
       ELSE [idx |-> FirstRowHeuristic(idx0, MapSeq(_clean_text, data[1])),
             heuristic |-> TRUE]

\* ------------------------------------------------------- record extractors
AFM_SHORTPOS_URL ==
    "https://www.afm.nl/nl-nl/sector/registers/meldingenregisters/netto-shortposities-actueel"

\* hashlib.sha256(base.encode("utf-8")).hexdigest()[:16], kept symbolic: the
\* digest is identified by the string that was hashed
Sha256Hex16(base) == [sha256_16 |-> base]

Bar == <<"|">>

\* a variant that leaves the date out of the hashed string
_make_uid_unstable(issuer, short_seller, iso_date, pct) ==
    Sha256Hex16(issuer \o Bar \o short_seller \o Bar \o pct)

\* afm_scraper._make_uid
_make_uid(issuer, short_seller, iso_date, pct) ==
    Sha256Hex16(issuer \o Bar \o short_seller \o Bar \o iso_date \o Bar \o pct)

\* article_builder._uid
_uid(issuer, short_seller, iso_date, pct) ==
    Sha256Hex16(issuer \o Bar \o short_seller \o Bar \o iso_date \o Bar \o pct)

ShortPosition(issuer, issuer_isin, short_seller, net_short_pct, net_short_pct_num, position_date, position_date_iso, unique_id) ==
    [issuer |-> issuer, issuer_isin |-> issuer_isin, short_seller |-> short_seller,
     net_short_pct |-> net_short_pct, net_short_pct_num |-> net_short_pct_num,
     position_date |-> position_date, position_date_iso |-> position_date_iso,
     source_url |-> AFM_SHORTPOS_URL, unique_id |-> unique_id]

\* --- the approval filter (company_filter_pennywatch.py)
APPROVED_COMPANIES == {<<"A", "c", "o", "m", "o", " ", "N", ".", "V", ".">>, <<"T", "o", "m", "T", "o", "m", " ", "N", ".", "V", ".">>, <<"P", "o", "s", "t", "N", "L", " ", "N", ".", "V", ".">>}

NameChars == {LowerSeq[i] : i \in 1..26} \cup Digits \cup {"&", " "}
KeepNameChar(c) == c \in NameChars
\* lower-case, drop punctuation, collapse spaces (the removal of the legal-form
\* words nv, bv, ... is not modelled)
normalize_name(name) ==
    IF name = None \/ name = <<>> THEN <<>>
    ELSE CollapseWs(Strip(SelectSeq(Lower(name), KeepNameChar)))

\* the direct-or-partial match of is_approved_company (the difflib ratio is
\* not modelled)
is_approved_company(name) ==
    IF name = None \/ name = <<>> THEN FALSE
    ELSE \E company \in APPROVED_COMPANIES :
            \/ Contains(normalize_name(name), normalize_name(company))
            \/ Contains(normalize_name(company), normalize_name(name))

\* number of parameters of def is_approved_company(name)
IsApprovedCompanyParams == 1

\* a call is_approved_company(*args): TypeError when the number of positional
\* arguments is not the number of parameters
CallIsApprovedCompany(args) ==
    IF Len(args) # IsApprovedCompanyParams THEN "TypeError"
    ELSE IF is_approved_company(args[1]) THEN "approved" ELSE "denied"

\* a variant of the completeness test that forgets the filer
MissingMandatory_no_filer(issuer, short_seller, net_pct_raw) ==
    issuer = <<>> \/ net_pct_raw = <<>>

\* `not issuer or not short_seller or not net_pct_raw`
MissingMandatory(issuer, short_seller, net_pct_raw) ==
    issuer = <<>> \/ short_seller = <<>> \/ net_pct_raw = <<>>

\* first text of texts that satisfies P, or ""
FirstText(texts, P(_)) ==
    IF \E i \in 1..Len(texts) : P(texts[i]) THEN texts[FirstIdx(texts, P) + 1] ELSE <<>>

\* the field values _parse_from_table reads from one row, after its fallbacks
TableRowFields(map, tds) ==
    LET texts == MapSeq(_clean_text, tds)
        pick(key) == LET i == Get(map, key, -1)
                     IN IF i >= 0 /\ i < Len(tds) THEN texts[i + 1] ELSE <<>>
        isin == pick("isin")
        pct  == pick("net_short_pct")
        date == pick("date")
    IN [issuer |-> pick("issuer"),
        issuer_isin |-> IF isin = <<>> THEN None ELSE isin,
        short_seller |-> pick("short_seller"),
        net_pct_raw |-> IF pct # <<>> THEN pct ELSE FirstText(texts, HasPct),
        date_raw |-> IF date # <<>> THEN date ELSE FirstText(texts, HasDate)]

\* the ShortPosition afm_scraper builds from extracted field values
AfmRecord(f) ==
    LET d == _parse_date(f.date_raw)
    IN ShortPosition(f.issuer, f.issuer_isin, f.short_seller, f.net_pct_raw,
                     _pct_to_float(f.net_pct_raw), d[1], d[2],
                     _make_uid(f.issuer, f.short_seller, d[2], f.net_pct_raw))

\* --- CSV
Delimiters == <<";", ",", "\t">>
CountOf(s, c) == Cardinality({i \in 1..Len(s) : s[i] = c})
IsNonEmpty(s) == s # <<>>
CsvLines(text) == SelectSeq(SplitOn(text, "\n"), IsNonEmpty)

\* csv.Sniffer().sniff(text, delimiters=";,\t").delimiter with the except
\* branch: a delimiter that occurs equally often, at least once, on every
\* line; ";" when there is none
_sniff_delimiter(text) ==
    LET lines == CsvLines(text)
        ok(c) == /\ lines # <<>>
                 /\ CountOf(lines[1], c) > 0
                 /\ \A i \in 1..Len(lines) : CountOf(lines[i], c) = CountOf(lines[1], c)
        good  == {i \in 1..Len(Delimiters) : ok(Delimiters[i])}
    IN IF good = {} THEN ";" ELSE Delimiters[SetMin(good)]

\* csv.DictReader(io.StringIO(text), delimiter=delim): each data row as the
\* sequence of its (fieldname, value) items in column order; a missing value is None
DictReader(text, delim) ==
    LET lines == CsvLines(text)
        names == SplitOn(lines[1], delim)
        row(i) == LET cells == SplitOn(lines[i + 1], delim)
                  IN [c \in 1..Len(names) |->
                         <<names[c], IF c <= Len(cells) THEN cells[c] ELSE None>>]
    IN IF lines = <<>> THEN <<>> ELSE [i \in 1..(Len(lines) - 1) |-> row(i)]

Truthy(v) == v # None /\ v # <<>>
HasKey(row, k) == \E i \in 1..Len(row) : row[i][1] = k
RowVal(row, k) == row[SetMax({i \in 1..Len(row) : row[i][1] = k})][2]
LowerKeys(row) == [i \in 1..Len(row) |-> <<Lower(row[i][1]), row[i][2]>>]

\* get(row, keys) of _parse_csv and _map_get of article_builder: the first
\* key with a non-empty value, exact names first, then case-insensitively
_map_get(row, keys) ==
    LET hit(r, k) == HasKey(r, k) /\ Truthy(RowVal(r, k))
        low == LowerKeys(row)
    IN IF \E i \in 1..Len(keys) : hit(row, keys[i])
       THEN _clean(RowVal(row, keys[SetMin({i \in 1..Len(keys) : hit(row, keys[i])})]))
       ELSE IF \E i \in 1..Len(keys) : hit(low, Lower(keys[i]))
       THEN _clean(RowVal(low, Lower(keys[SetMin({i \in 1..Len(keys) : hit(low, Lower(keys[i]))})])))
       ELSE <<>>

AfmIssuerKeys == <<<<"U", "i", "t", "g", "e", "v", "e", "n", "d", "e", " ", "i", "n", "s", "t", "e", "l", "l", "i", "n", "g">>, <<"I", "s", "s", "u", "e", "r">>, <<"U", "i", "t", "g", "e", "v", "e", "n", "d", "e">>>>
AfmIsinKeys == <<<<"I", "S", "I", "N">>>>
AfmHolderKeys == <<<<"P", "a", "r", "t", "i", "j">>, <<"H", "o", "u", "d", "e", "r">>, <<"S", "h", "o", "r", "t", " ", "s", "e", "l", "l", "e", "r">>, <<"M", "e", "l", "d", "i", "n", "g", "s", "p", "l", "i", "c", "h", "t", "i", "g", "e">>>>
AfmPctKeys == <<<<"N", "e", "t", "t", "o", " ", "s", "h", "o", "r", "t", "p", "o", "s", "i", "t", "i", "e">>, <<"N", "e", "t", " ", "s", "h", "o", "r", "t", " ", "p", "o", "s", "i", "t", "i", "o", "n">>, <<"N", "e", "t", "t", "o", "-", "s", "h", "o", "r", "t", "p", "o", "s", "i", "t", "i", "e">>, <<"%">>>>
AfmDateKeys == <<<<"D", "a", "t", "u", "m">>, <<"D", "a", "t", "e">>>>

\* the field values _parse_csv reads from one row
CsvRowFields(row) ==
    LET isin == _map_get(row, AfmIsinKeys)
    IN [issuer |-> _map_get(row, AfmIssuerKeys),
        issuer_isin |-> IF isin = <<>> THEN None ELSE isin,
        short_seller |-> _map_get(row, AfmHolderKeys),
        net_pct_raw |-> _map_get(row, AfmPctKeys),
        date_raw |-> _map_get(row, AfmDateKeys)]

SYM_ISSUER == AfmIssuerKeys \o <<<<"I", "s", "s", "u", "e", "r", " ", "n", "a", "m", "e">>, <<"C", "o", "m", "p", "a", "n", "y">>>>
SYM_ISIN == <<<<"I", "S", "I", "N">>>>
SYM_HOLDER == AfmHolderKeys \o <<<<"S", "h", "o", "r", "t", "e", "r">>, <<"S", "h", "o", "r", "t", "i", "n", "g", " ", "p", "a", "r", "t", "y">>>>
SYM_PCT == AfmPctKeys \o <<<<"N", "e", "t", " ", "s", "h", "o", "r", "t", " ", "%">>>>
SYM_DATE == AfmDateKeys \o <<<<"D", "a", "t", "u", "m", " ", "m", "e", "l", "d", "i", "n", "g">>, <<"M", "e", "l", "d", "i", "n", "g", "s", "d", "a", "t", "u", "m">>, <<"P", "o", "s", "i", "t", "i", "o", "n", " ", "d", "a", "t", "e">>>>

IsUpperChar(c) == \E i \in 1..26 : UpperSeq[i] = c
\* _ISIN_RE.match(t): ^[A-Z]{2}[A-Z0-9]{9}\d$
IsIsin(t) ==
    /\ Len(t) = 12
    /\ IsUpperChar(t[1]) /\ IsUpperChar(t[2])
    /\ \A i \in 3..11 : IsUpperChar(t[i]) \/ IsDigit(t[i])
    /\ IsDigit(t[12])

\* 0-based index of the first cell satisfying P, -1 for None
HeuristicIdx(cells, P(_)) ==
    IF \E i \in 1..Len(cells) : P(cells[i]) THEN FirstIdx(cells, P) ELSE -1

RowCells(row) == [i \in 1..Len(row) |-> _clean(row[i][2])]

_pick_by_heuristics(row) ==
    LET cells == RowCells(row)
    IN [pct_idx |-> HeuristicIdx(cells, HasPct),
        date_idx |-> HeuristicIdx(cells, HasDate),
        isin_idx |-> HeuristicIdx(cells, IsIsin)]

\* the columns (0-based, in column order) of the two longest non-empty cells
\* outside blocked; of equally long cells the later column sorts first
TwoLongest(cells, blocked) ==
    LET cand == {j \in 0..(Len(cells) - 1) : cells[j + 1] # <<>> /\ j \notin blocked}
        before(a, b) == \/ Len(cells[a + 1]) > Len(cells[b + 1])
                        \/ Len(cells[a + 1]) = Len(cells[b + 1]) /\ a > b
        top == {j \in cand : Cardinality({o \in cand : before(o, j)}) < 2}
    IN IF top = {} THEN <<>>
       ELSE IF Cardinality(top) = 1 THEN <<SetMin(top)>>
       ELSE <<SetMin(top), SetMax(top)>>

\* the field values _parse_csv_rows reads from one row: header synonyms,
\* then the value heuristics, then the two longest remaining cells; `from`
\* records the column (0-based) each fallback value was taken from, -1 when
\* the value came from a header synonym or is empty
AbRowFields(row) ==
    LET issuer0 == _map_get(row, SYM_ISSUER)
        holder0 == _map_get(row, SYM_HOLDER)
        pct0    == _map_get(row, SYM_PCT)
        date0   == _map_get(row, SYM_DATE)
        isin0   == _map_get(row, SYM_ISIN)
        heur    == \/ pct0 = <<>> \/ date0 = <<>> \/ isin0 = <<>>
                   \/ issuer0 = <<>> \/ holder0 = <<>>
        h       == _pick_by_heuristics(row)
        cells   == RowCells(row)
        pct1    == IF heur /\ pct0 = <<>> /\ h.pct_idx >= 0 THEN cells[h.pct_idx + 1] ELSE pct0
        date1   == IF heur /\ date0 = <<>> /\ h.date_idx >= 0 THEN cells[h.date_idx + 1] ELSE date0
        isin1   == IF heur /\ isin0 = <<>> /\ h.isin_idx >= 0 THEN cells[h.isin_idx + 1] ELSE isin0
        blocked == {h.pct_idx, h.date_idx, h.isin_idx} \ {-1}
        top     == IF heur /\ (issuer0 = <<>> \/ holder0 = <<>>)
                   THEN TwoLongest(cells, blocked) ELSE <<>>
        issuerF == issuer0 = <<>> /\ Len(top) >= 1
        holderF == holder0 = <<>> /\ Len(top) >= 2
    IN [issuer |-> IF issuerF THEN cells[top[1] + 1] ELSE issuer0,
        issuer_isin |-> IF isin1 = <<>> THEN None ELSE isin1,
        short_seller |-> IF holderF THEN cells[top[2] + 1] ELSE holder0,
        net_pct_raw |-> pct1,
        date_raw |-> date1,
        from |-> [issuer |-> IF issuerF THEN top[1] ELSE -1,
                  short_seller |-> IF holderF THEN top[2] ELSE -1]]

\* the ShortPosition article_builder builds from extracted field values
AbRecord(f) ==
    LET d == ab_parse_date(f.date_raw)
    IN ShortPosition(f.issuer, f.issuer_isin, f.short_seller, f.net_pct_raw,
                     ab_pct_to_float(f.net_pct_raw), d[1], d[2],
                     _uid(f.issuer, f.short_seller, d[2], f.net_pct_raw))

\* ------------------------------------------------------ the fetched inputs
HttpStatuses == {200, 403}

\* header rows: the register's own names; names that match one role each;
\* names that match no keyword
RegisterHeads == <<<<"U", "i", "t", "g", "e", "v", "e", "n", "d", "e", " ", "i", "n", "s", "t", "e", "l", "l", "i", "n", "g">>, <<"I", "S", "I", "N">>, <<"P", "a", "r", "t", "i", "j">>, <<"N", "e", "t", "t", "o", " ", "s", "h", "o", "r", "t", "p", "o", "s", "i", "t", "i", "e">>, <<"D", "a", "t", "u", "m">>>>
PlainHeads == <<<<"I", "s", "s", "u", "e", "r">>, <<"I", "S", "I", "N">>, <<"H", "o", "u", "d", "e", "r">>, <<"N", "e", "t", "t", "o", " ", "p", "o", "s", "i", "t", "i", "e">>, <<"D", "a", "t", "e">>>>
OtherHeads == <<<<"N", "a", "a", "m">>, <<"C", "o", "d", "e">>, <<"W", "i", "e">>, <<"H", "o", "e", "v", "e", "e", "l">>, <<"W", "a", "n", "n", "e", "e", "r">>>>
TableHeads == {RegisterHeads, PlainHeads, OtherHeads}

\* body rows: issuer, ISIN, filer, percentage, date
TableRowPool ==
    {<<<<"A", "c", "m", "e", " ", "N", "V">>, <<"N", "L", "0", "0", "0", "0", "0", "0", "0", "0", "0", "1">>, <<"F", "u", "n", "d", " ", "X">>, <<"1", ",", "2", "3", "%">>, <<"2", "2", "-", "1", "0", "-", "2", "0", "2", "4">>>>,
     <<<<"A", "c", "m", "e", " ", "N", "V">>, <<"N", "L", "0", "0", "0", "0", "0", "0", "0", "0", "0", "1">>, <<"F", "u", "n", "d", " ", "X">>, <<"1", ",", "3", "0", "%">>, <<"2", "2", "-", "1", "0", "-", "2", "0", "2", "4">>>>,
     <<<<"A", "c", "m", "e", " ", "N", "V">>, <<"N", "L", "0", "0", "0", "0", "0", "0", "0", "0", "0", "1">>, <<>>, <<"0", ",", "5", "0", "%">>, <<"2", "0", "2", "4", "-", "1", "0", "-", "2", "2">>>>,
     <<<<"B", "e", "t", "a", " ", " ", "B", "V", " ">>, <<>>, <<"F", "u", "n", "d", " ", "Y">>, <<"0", ",", "6", "1">>, <<"2", "2", "/", "1", "0", "/", "2", "0", "2", "4">>>>,
     <<<<>>, <<"N", "L", "0", "0", "0", "0", "0", "0", "0", "0", "0", "1">>, <<"F", "u", "n", "d", " ", "X">>, <<>>, <<>>>>}

SeqsUpTo(S, n) == UNION {[1..k -> S] : k \in 0..n}

TableLayouts ==
    {[thead |-> TRUE, tbody |-> TRUE, hcell |-> "th"],
     [thead |-> FALSE, tbody |-> FALSE, hcell |-> "td"]}

Tables ==
    {Table(l.thead, l.tbody, l.hcell, h, b) :
        l \in TableLayouts, h \in TableHeads, b \in SeqsUpTo(TableRowPool, MaxRows)}
      \cup {Table(FALSE, FALSE, "none", <<>>, b) : b \in SeqsUpTo(TableRowPool, MaxRows)}

\* a layout table that precedes the register table on some pages
MenuTable == Table(FALSE, FALSE, "td", <<<<"H", "o", "m", "e">>, <<"C", "o", "n", "t", "a", "c", "t">>>>, <<>>)

PageTables == {<<>>} \cup {<<t>> : t \in Tables} \cup {<<MenuTable, t>> : t \in Tables}

Link(href, text) == [href |-> href, text |-> text]
PageLinks ==
    {<<>>,
     <<Link(<<"/", "c", "o", "n", "t", "a", "c", "t">>, <<"C", "o", "n", "t", "a", "c", "t">>), Link(<<"/", "e", "x", "p", "o", "r", "t", ".", "c", "s", "v">>, <<"D", "o", "w", "n", "l", "o", "a", "d", " ", "C", "S", "V">>)>>,
     <<Link(<<"/", "c", "o", "n", "t", "a", "c", "t">>, <<"C", "o", "n", "t", "a", "c", "t">>),
       Link(<<"h", "t", "t", "p", "s", ":", "/", "/", "w", "w", "w", ".", "a", "f", "m", ".", "n", "l", "/", "e", "x", "p", "o", "r", "t", ".", "a", "s", "p", "x", "?", "f", "o", "r", "m", "a", "t", "=", "c", "s", "v">>, <<"E", "x", "p", "o", "r", "t", "e", "e", "r">>)>>}

\* CSV payloads: a header line and data lines issuer;filer;percentage;date
CsvHeaderLines ==
    {<<"N", "a", "a", "m", " ", "v", "a", "n", " ", "d", "e", " ", "e", "m", "i", "t", "t", "e", "n", "t", ";", "P", "o", "s", "i", "t", "i", "e", " ", "h", "o", "u", "d", "e", "r", ";", "N", "e", "t", "t", "o", " ", "S", "h", "o", "r", "t", "p", "o", "s", "i", "t", "i", "e", ";", "P", "o", "s", "i", "t", "i", "e", "d", "a", "t", "u", "m">>,
     <<"U", "i", "t", "g", "e", "v", "e", "n", "d", "e", " ", "i", "n", "s", "t", "e", "l", "l", "i", "n", "g", ";", "P", "a", "r", "t", "i", "j", ";", "N", "e", "t", "t", "o", " ", "s", "h", "o", "r", "t", "p", "o", "s", "i", "t", "i", "e", ";", "D", "a", "t", "u", "m">>}
CsvRowPool ==
    {<<"A", "c", "m", "e", " ", "N", "V", ";", "F", "u", "n", "d", " ", "X", ";", "1", ",", "2", "3", ";", "2", "0", "2", "5", "-", "0", "1", "-", "1", "5", " ", "0", "0", ":", "0", "0", ":", "0", "0">>,
     <<"A", "c", "m", "e", " ", "N", "V", ";", ";", "1", ",", "2", "3", ";", "2", "0", "2", "5", "-", "0", "1", "-", "1", "5", " ", "0", "0", ":", "0", "0", ":", "0", "0">>,
     <<"B", "e", "t", "a", " ", "B", "V", ";", "F", "u", "n", "d", " ", "Y", ";", "0", ",", "5", "0", "%", ";", "1", "5", "-", "0", "1", "-", "2", "0", "2", "5">>,
     <<";", "F", "u", "n", "d", " ", "X", ";", ";">>}

RECURSIVE JoinLines(_)
JoinLines(lines) ==
    IF lines = <<>> THEN <<>> ELSE Head(lines) \o <<"\n">> \o JoinLines(Tail(lines))

CsvTexts ==
    {<<>>} \cup {JoinLines(<<h>> \o r) : h \in CsvHeaderLines, r \in SeqsUpTo(CsvRowPool, MaxRows)}

\* ------------------------------------------- publisher and orchestration state
\* unique ids of the payloads given to the publisher
\* unique ids of the records given to the publisher (two hashes)
PubUids == {Sha256Hex16(<<"a">>), Sha256Hex16(<<"b">>)}

\* the endpoint holds no marked post
NoPosts == [u \in {} |-> 0]

\* number of posts on the endpoint whose content carries the marker of uid
PostCount(posts, uid) == IF uid \in DOMAIN posts THEN posts[uid] ELSE 0

Publisher == <<MAX_POSTS_PER_RUN, arg, calls, created, ret, wp_posts, scraped, posted, handed>>

\* values of the publisher's and the orchestration's variables while neither runs
PublisherAtRest ==
    /\ MAX_POSTS_PER_RUN = 10
    /\ arg = [kind |-> "none"] /\ calls = <<>> /\ created = 0 /\ ret = -1
    /\ wp_posts = NoPosts
    /\ scraped = <<>> /\ posted = 0 /\ handed = <<>>

\* --------------------------------------------------- link discovery
AbsUrl(href) == IF StartsWith(href, <<"/">>) THEN <<"h", "t", "t", "p", "s", ":", "/", "/", "w", "w", "w", ".", "a", "f", "m", ".", "n", "l">> \o href ELSE href

IsCsvLink(a) ==
    \/ Contains(<<".", "c", "s", "v">>, Lower(a.href))
    \/ Contains(<<"c", "s", "v">>, Lower(_clean_text(a.text)))
    \/ Contains(<<"d", "o", "w", "n", "l", "o", "a", "d">>, Lower(_clean_text(a.text)))
IsExportLink(a) ==
    Contains(<<"e", "x", "p", "o", "r", "t", ".", "a", "s", "p", "x">>, Lower(a.href)) /\ Contains(<<"f", "o", "r", "m", "a", "t", "=", "c", "s", "v">>, Lower(a.href))

FirstLink(links, P(_)) == links[SetMin({i \in 1..Len(links) : P(links[i])})]

\* afm_scraper._find_download_link
_find_download_link(links) ==
    IF \E i \in 1..Len(links) : IsCsvLink(links[i])
    THEN AbsUrl(FirstLink(links, IsCsvLink).href)
    ELSE None

\* the two link loops of article_builder._find_csv_url
FindCsvUrlLink(links) ==
    IF \E i \in 1..Len(links) : IsCsvLink(links[i])
    THEN AbsUrl(FirstLink(links, IsCsvLink).href)
    ELSE IF \E i \in 1..Len(links) : IsExportLink(links[i])
    THEN AbsUrl(FirstLink(links, IsExportLink).href)
    ELSE None

\* ------------------------------------------- afm_scraper.scrape_short_positions
Init ==
    /\ pc = "start"
    /\ impl \in {"afm_scraper", "article_builder"}
    /\ BYPASS_FILTER \in (IF impl = "afm_scraper" THEN BOOLEAN ELSE {FALSE})
    /\ soup_tables = <<>> /\ soup_links = <<>>
    /\ tbl = NoTable /\ csv_url = None /\ hmap = EmptyMap
    /\ rows = <<>> /\ seen = 0 /\ results = <<>>
    /\ exc = "none" /\ caught = "none" /\ csv_text = <<>>
    /\ page_shape = "unread" /\ strategyB = FALSE
    /\ strftime_pads = FALSE
    /\ fn_in = None /\ fn_out = None
    /\ entry = "fetch_items" /\ PublisherAtRest

Env == <<impl, BYPASS_FILTER, strftime_pads, fn_in, fn_out, entry, Publisher>>

\* requests.get of the register page, raise_for_status, BeautifulSoup
ScrapeGetPage ==
    /\ pc = "start" /\ impl = "afm_scraper"
    /\ \E status \in HttpStatuses, tables \in PageTables :
          IF status >= 400
          THEN /\ pc' = "raised" /\ exc' = "HTTPError"
               /\ UNCHANGED soup_tables
          ELSE /\ pc' = "pick_table" /\ exc' = exc
               /\ soup_tables' = tables
    /\ UNCHANGED <<Env, soup_links, tbl, csv_url, hmap, rows, seen, results, caught,
                   csv_text, page_shape, strategyB>>

\* tbl = _pick_best_table(soup); `if tbl:` (a Tag is always true).  The other
\* tables of the page are not read again and are dropped.
PickBestTable ==
    /\ pc = "pick_table"
    /\ tbl' = _pick_best_table(soup_tables)
    /\ soup_tables' = <<>>
    /\ page_shape' = IF tbl' = NoTable THEN "no_table"
                     ELSE IF tbl'.body = <<>> THEN "no_rows" ELSE "rows"
    /\ pc' = IF tbl' = NoTable THEN "csv_fallback" ELSE "header_map"
    /\ UNCHANGED <<Env, soup_links, csv_url, hmap, rows, seen, results, exc, caught,
                   csv_text, strategyB>>

\* _parse_from_table up to its loop: hmap = _header_map(tbl), results = [], seen = 0
HeaderMapStep ==
    /\ pc = "header_map"
    /\ LET m == _header_map(tbl)
       IN hmap' = m.idx /\ strategyB' = m.heuristic
    /\ rows' = _iter_rows(tbl)
    /\ seen' = 0 /\ results' = <<>>
    /\ pc' = "table_rows"
    /\ UNCHANGED <<Env, soup_tables, soup_links, tbl, csv_url, exc, caught, csv_text,
                   page_shape>>

\* one iteration of `for tds in _iter_rows(tbl)`
TableRow ==
    /\ pc = "table_rows" /\ rows # <<>>
    /\ LET f == TableRowFields(hmap, Head(rows))
           filter == IF BYPASS_FILTER THEN "bypassed"
                     ELSE CallIsApprovedCompany(<<f.issuer, f.issuer_isin>>)
       IN /\ seen' = seen + 1
          /\ rows' = Tail(rows)
          /\ IF MissingMandatory(f.issuer, f.short_seller, f.net_pct_raw)
             THEN UNCHANGED <<pc, results, exc>>
             ELSE IF filter = "TypeError"
             THEN pc' = "raised" /\ exc' = "TypeError" /\ UNCHANGED results
             ELSE IF filter = "denied"
             THEN UNCHANGED <<pc, results, exc>>
             ELSE results' = Append(results, AfmRecord(f)) /\ UNCHANGED <<pc, exc>>
    /\ UNCHANGED <<Env, soup_tables, soup_links, tbl, csv_url, hmap, caught, csv_text,
                   page_shape, strategyB>>

\* end of the loop: return results; `if items: return items`.  The table and
\* the locals of _parse_from_table are not read again and are reset.
TableReturn ==
    /\ pc = "table_rows" /\ rows = <<>>
    /\ pc' = IF results # <<>> THEN "done" ELSE "csv_fallback"
    /\ tbl' = NoTable /\ hmap' = EmptyMap
    /\ seen' = 0 /\ strategyB' = FALSE
    /\ UNCHANGED <<Env, soup_tables, soup_links, csv_url, rows, results, exc, caught,
                   csv_text, page_shape>>

\* csv_url = _find_download_link(soup), reading the <a href> elements of
\* the page; without a link: return []
FindDownloadLink ==
    /\ pc = "csv_fallback"
    /\ \E links \in PageLinks :
          /\ soup_links' = links
          /\ csv_url' = _find_download_link(links)
    /\ pc' = IF csv_url' = None THEN "done" ELSE "csv_get"
    /\ UNCHANGED <<Env, soup_tables, tbl, hmap, rows, seen, results, exc, caught,
                   csv_text, page_shape, strategyB>>

\* inside try: requests.get(csv_url), raise_for_status, decode, and
\* _parse_csv up to its loop; an exception is logged and [] returned
CsvGet ==
    /\ pc = "csv_get"
    /\ \E status \in HttpStatuses, text \in CsvTexts :
          IF status >= 400
          THEN /\ caught' = "HTTPError" /\ pc' = "done"
               /\ UNCHANGED <<csv_text, rows>>
          ELSE /\ csv_text' = text
               /\ rows' = DictReader(text, _sniff_delimiter(text))
               /\ pc' = "csv_rows" /\ caught' = caught
    /\ seen' = 0 /\ results' = <<>>
    /\ UNCHANGED <<Env, soup_tables, soup_links, tbl, csv_url, hmap, exc, page_shape,
                   strategyB>>

\* one iteration of `for row in reader` of _parse_csv; the TypeError of the
\* filter call leaves _parse_csv and is caught in scrape_short_positions
CsvRow ==
    /\ pc = "csv_rows" /\ rows # <<>>
    /\ LET f == CsvRowFields(Head(rows))
           filter == IF BYPASS_FILTER THEN "bypassed"
                     ELSE CallIsApprovedCompany(<<f.issuer, f.issuer_isin>>)
       IN /\ seen' = seen + 1
          /\ rows' = Tail(rows)
          /\ IF MissingMandatory(f.issuer, f.short_seller, f.net_pct_raw)
             THEN UNCHANGED <<pc, results, caught>>
             ELSE IF filter = "TypeError"
             THEN pc' = "done" /\ caught' = "TypeError" /\ results' = <<>>
             ELSE IF filter = "denied"
             THEN UNCHANGED <<pc, results, caught>>
             ELSE results' = Append(results, AfmRecord(f)) /\ UNCHANGED <<pc, caught>>
    /\ UNCHANGED <<Env, soup_tables, soup_links, tbl, csv_url, hmap, exc, csv_text,
                   page_shape, strategyB>>

\* end of the loop: `if items: return items`, else the warning and return []
CsvReturn ==
    /\ pc = "csv_rows" /\ rows = <<>>
    /\ pc' = "done"
    /\ UNCHANGED <<Env, soup_tables, soup_links, tbl, csv_url, hmap, rows, seen, results,
                   exc, caught, csv_text, page_shape, strategyB>>

\* --------------------------------------- article_builder.scrape_short_positions
\* _find_csv_url: requests.get of the register page, raise_for_status, the
\* link loops; without a link: return []
AbFindCsvUrl ==
    /\ pc = "start" /\ impl = "article_builder"
    /\ \E status \in HttpStatuses, links \in PageLinks :
          IF status >= 400
          THEN /\ pc' = "raised" /\ exc' = "HTTPError"
               /\ UNCHANGED <<soup_links, csv_url>>
          ELSE /\ soup_links' = links
               /\ csv_url' = FindCsvUrlLink(links)
               /\ pc' = IF csv_url' = None THEN "done" ELSE "ab_csv_get"
               /\ exc' = exc
    /\ UNCHANGED <<Env, soup_tables, tbl, hmap, rows, seen, results, caught, csv_text,
                   page_shape, strategyB>>

\* requests.get(csv_url), raise_for_status, _decode_best, and
\* _parse_csv_rows up to its loop
AbCsvGet ==
    /\ pc = "ab_csv_get"
    /\ \E status \in HttpStatuses, text \in CsvTexts :
          IF status >= 400
          THEN /\ pc' = "raised" /\ exc' = "HTTPError"
               /\ UNCHANGED <<csv_text, rows>>
          ELSE /\ csv_text' = text
               /\ rows' = DictReader(text, _sniff_delimiter(text))
               /\ pc' = "ab_csv_rows" /\ exc' = exc
    /\ seen' = 0 /\ results' = <<>>
    /\ UNCHANGED <<Env, soup_tables, soup_links, tbl, csv_url, hmap, caught, page_shape,
                   strategyB>>

\* one iteration of `for row in reader` of _parse_csv_rows
AbCsvRow ==
    /\ pc = "ab_csv_rows" /\ rows # <<>>
    /\ LET f == AbRowFields(Head(rows))
       IN /\ seen' = seen + 1
          /\ rows' = Tail(rows)
          /\ IF MissingMandatory(f.issuer, f.short_seller, f.net_pct_raw)
             THEN UNCHANGED results
             ELSE results' = Append(results, AbRecord(f))
    /\ UNCHANGED <<Env, pc, soup_tables, soup_links, tbl, csv_url, hmap, exc, caught,
                   csv_text, page_shape, strategyB>>

\* end of the loop: return out; scrape_short_positions returns items
AbCsvReturn ==
    /\ pc = "ab_csv_rows" /\ rows = <<>>
    /\ pc' = "done"
    /\ UNCHANGED <<Env, soup_tables, soup_links, tbl, csv_url, hmap, rows, seen, results,
                   exc, caught, csv_text, page_shape, strategyB>>

Next ==
    \/ ScrapeGetPage
    \/ PickBestTable
    \/ HeaderMapStep
    \/ TableRow
    \/ TableReturn
    \/ FindDownloadLink
    \/ CsvGet
    \/ CsvRow
    \/ CsvReturn
    \/ AbFindCsvUrl
    \/ AbCsvGet
    \/ AbCsvRow
    \/ AbCsvReturn

Spec == Init /\ [][Next]_vars

\* ------------------------------------------- the normalizers, called alone
\* values of the scraper's variables while only a normalizer runs
ScraperAtRest ==
    /\ impl = "none" /\ BYPASS_FILTER = FALSE
    /\ soup_tables = <<>> /\ soup_links = <<>> /\ tbl = NoTable /\ hmap = EmptyMap
    /\ rows = <<>> /\ seen = 0 /\ results = <<>> /\ csv_url = None
    /\ exc = "none" /\ caught = "none" /\ csv_text = <<>>
    /\ page_shape = "unread" /\ strategyB = FALSE

ScraperUnchanged ==
    UNCHANGED <<impl, BYPASS_FILTER, soup_tables, soup_links, tbl, csv_url, hmap, rows,
                seen, results, exc, caught, csv_text, page_shape, strategyB, strftime_pads,
                entry, Publisher>>

\* percentage strings: sign, integer part, fraction, suffix; and non-numbers
PctSigns == {<<>>, <<"-">>}
PctInts == {<<"0">>, <<"1">>, <<"5", "0">>, <<"1", "0", "0">>, <<"1", "5", "0">>}
PctFracs == {<<>>, <<",", "2", "3">>, <<".", "5">>}
PctSuffixes == {<<>>, <<"%">>, <<" ", "%">>}
PctInputs ==
    {s \o i \o f \o x : s \in PctSigns, i \in PctInts, f \in PctFracs, x \in PctSuffixes}
        \cup {<<>>, <<"N", "/", "A">>, <<"%">>, <<"n", ".", "n", ".", "b", ".">>, <<"c", "a", ".", " ", "3", ",", "5", "%">>, <<"1", ".", "2", ".", "3">>}

InitPct ==
    /\ pc = "pct_arg"
    /\ fn_in \in PctInputs
    /\ fn_out = None
    /\ strftime_pads = FALSE
    /\ ScraperAtRest
    /\ entry = "none" /\ PublisherAtRest

CallPctToFloat ==
    /\ pc = "pct_arg"
    /\ fn_out' = _pct_to_float(fn_in)
    /\ pc' = "pct_afm"
    /\ UNCHANGED fn_in
    /\ ScraperUnchanged

CallAbPctToFloat ==
    /\ pc = "pct_arg"
    /\ fn_out' = ab_pct_to_float(fn_in)
    /\ pc' = "pct_ab"
    /\ UNCHANGED fn_in
    /\ ScraperUnchanged

NextPct == CallPctToFloat \/ CallAbPctToFloat

SpecPct == InitPct /\ [][NextPct]_vars

\* dates: a calendar date written in one of the three formats, day and month
\* with or without a leading zero, with or without a time suffix
DateYears == {999} \cup (2024..MaxYear)
DateDays(y, m) == {1, 10, 22, DaysIn(y, m)}
DateFormats == {"%d-%m-%Y", "%Y-%m-%d", "%d/%m/%Y"}
TimeSuffixes == {<<>>, <<" ", "0", "0", ":", "0", "0", ":", "0", "0">>}

WriteDate(y, m, d, fmt, padded) ==
    LET D == IF padded THEN Pad2(d) ELSE Unpadded(d)
        M == IF padded THEN Pad2(m) ELSE Unpadded(m)
        Y == Pad4(y)
    IN IF fmt = "%d-%m-%Y" THEN D \o <<"-">> \o M \o <<"-">> \o Y
       ELSE IF fmt = "%Y-%m-%d" THEN Y \o <<"-">> \o M \o <<"-">> \o D
       ELSE D \o <<"/">> \o M \o <<"/">> \o Y

InitDate ==
    /\ pc = "date_arg"
    /\ \E y \in DateYears, m \in 1..12, fmt \in DateFormats, padded \in BOOLEAN,
          sfx \in TimeSuffixes :
          \E d \in DateDays(y, m) :
              fn_in = [y |-> y, m |-> m, d |-> d, fmt |-> fmt, suffix |-> sfx,
                       text |-> WriteDate(y, m, d, fmt, padded) \o sfx]
    /\ fn_out = None
    /\ strftime_pads \in BOOLEAN
    /\ ScraperAtRest
    /\ entry = "none" /\ PublisherAtRest

CallParseDate ==
    /\ pc = "date_arg"
    /\ fn_out' = _parse_date(fn_in.text)
    /\ pc' = "date_afm"
    /\ UNCHANGED fn_in
    /\ ScraperUnchanged

CallAbParseDate ==
    /\ pc = "date_arg"
    /\ fn_out' = ab_parse_date(fn_in.text)
    /\ pc' = "date_ab"
    /\ UNCHANGED fn_in
    /\ ScraperUnchanged

NextDate == CallParseDate \/ CallAbParseDate

SpecDate == InitDate /\ [][NextDate]_vars

\* ---------------------------------------------------------------- publisher
\* article_builder.build_article is imported by publisher.py and main.py but
\* is not defined in article_builder.py; after the outbound publish payload of
\* the specification: content, and meta.afm_unique_id taken from the record
build_article(item) ==
    [content |-> {}, afm_unique_id |-> item.unique_id]

\* (payload.get("meta") or {}).get("afm_unique_id"): <<uid>>, or <<>> for the
\* None of a payload without one
_extract_uid(payload) ==
    IF "afm_unique_id" \in DOMAIN payload THEN <<payload.afm_unique_id>> ELSE <<>>

\* content + marker comment + marker span; the content is kept as the set of
\* the uids whose marker PW-AFM-UID:<uid> it carries
_embed_uid_marker(payload, uid) ==
    [payload EXCEPT !.content = payload.content \cup {uid}]

\* what the REST endpoint can answer to the duplicate search: the search and
\* the detail GETs succeed; the search GET raises or is not 2xx; a detail GET
\* is not answered 200
CheckAnswers == {"ok", "search_error", "detail_not_200"}

\* what can happen to the POST of a post: 2xx with a JSON body; a status >= 300;
\* an exception before the server got the request; the post is created but
\* the response is lost or not JSON (requests.post or resp.json() raises)
PostAnswers == {"created", "status_ge_300", "not_sent", "created_unread"}

\* the tag lookups of _normalize_tags succeed, or the tag POST raises
TagAnswers == {"ok", "raise"}

NetAnswers == [tags : TagAnswers, check : CheckAnswers, post : PostAnswers]

\* a variant of the duplicate check that never finds a post
_post_exists_by_uid_never(uid, posts, check) == FALSE

\* the search returns the posts whose content holds the marker; True when a
\* detail GET answered 200 confirms it; False on any exception (fail-open)
_post_exists_by_uid(uid, posts, check) ==
    IF check # "ok" THEN FALSE ELSE PostCount(posts, uid) > 0

\* one call _post_to_wordpress(payload) against an endpoint holding posts:
\* result "created" (resp.json() returned), "skipped" or "raised"; posts after
\* the call; sent: the endpoint created a post; check: the answer to the
\* duplicate search, "none" when no search was made
_post_to_wordpress(payload, posts, net) ==
    LET uid == _extract_uid(payload)
        body == IF uid # <<>> THEN _embed_uid_marker(payload, uid[1]) ELSE payload
        stored == [u \in DOMAIN posts \cup body.content |->
                      PostCount(posts, u) + (IF u \in body.content THEN 1 ELSE 0)]
    IN IF net.tags = "raise"
       THEN [result |-> "raised", posts |-> posts, sent |-> FALSE, check |-> "none", uid |-> uid]
       ELSE IF uid # <<>> /\ _post_exists_by_uid(uid[1], posts, net.check)
       THEN [result |-> "skipped", posts |-> posts, sent |-> FALSE, check |-> net.check, uid |-> uid]
       ELSE LET chk == IF uid # <<>> THEN net.check ELSE "none"
            IN CASE net.post = "created" ->
                      [result |-> "created", posts |-> stored, sent |-> TRUE, check |-> chk, uid |-> uid]
                 [] net.post = "created_unread" ->
                      [result |-> "raised", posts |-> stored, sent |-> TRUE, check |-> chk, uid |-> uid]
                 [] OTHER ->
                      [result |-> "raised", posts |-> posts, sent |-> FALSE, check |-> chk, uid |-> uid]

\* the entry _post_to_wordpress leaves in the history of calls
CallEntry(r) == [uid |-> r.uid, result |-> r.result, sent |-> r.sent, check |-> r.check]

\* a variant of the loop body that lets the exception of a failed publish escape
ItemOutcome_reraise(r) ==
    [inc |-> IF r.result = "created" THEN 1 ELSE 0,
     go |-> IF r.result = "raised" THEN "raise" ELSE "next"]

\* try/except of publish_items around one item: created += 1 unless the
\* result is skipped; an exception is logged and the loop goes on
ItemOutcome(r) ==
    [inc |-> IF r.result = "created" THEN 1 ELSE 0, go |-> "next"]

\* arguments of publish_to_wordpress: a list of source records, one built
\* payload (with or without meta.afm_unique_id), anything else
PublishItems == SeqsUpTo({[unique_id |-> u] : u \in PubUids}, MaxItems)
PublishPayloads ==
    {[content |-> {}, afm_unique_id |-> u] : u \in PubUids} \cup {[content |-> {}]}
PublishArgs ==
    {[kind |-> "list", items |-> l] : l \in PublishItems}
        \cup {[kind |-> "dict", payload |-> p] : p \in PublishPayloads}
        \cup {[kind |-> "other"]}

\* posts an earlier run left on the endpoint: none, or one for the first uid
EarlierPosts == {NoPosts, [u \in {Sha256Hex16(<<"a">>)} |-> 1]}

ScraperVars == <<impl, BYPASS_FILTER, soup_tables, soup_links, tbl, csv_url, hmap, rows,
                 seen, results, caught, csv_text, page_shape, strategyB, strftime_pads,
                 fn_in, fn_out>>

InitPublish ==
    /\ entry = "publish_to_wordpress" /\ pc = "publish_to_wordpress"
    /\ arg \in PublishArgs
    /\ MAX_POSTS_PER_RUN \in 1..MaxCap
    /\ wp_posts \in EarlierPosts
    /\ calls = <<>> /\ created = 0 /\ ret = -1
    /\ scraped = <<>> /\ posted = 0 /\ handed = <<>>
    /\ ScraperAtRest /\ strftime_pads = FALSE /\ fn_in = None /\ fn_out = None

\* publish_to_wordpress(arg): dispatch on the type of arg
PublishToWordpress ==
    /\ pc = "publish_to_wordpress"
    /\ CASE arg.kind = "list" -> pc' = "publish_items" /\ exc' = exc
         [] arg.kind = "dict" -> pc' = "publish_single" /\ exc' = exc
         [] OTHER -> pc' = "raised" /\ exc' = "TypeError"
    /\ created' = 0
    /\ UNCHANGED <<ScraperVars, entry, MAX_POSTS_PER_RUN, arg, calls, ret, wp_posts,
                   scraped, posted, handed>>

\* one pass of the loop of publish_items: the item after those already tried
PublishItem ==
    /\ pc = "publish_items"
    /\ Len(calls) < Len(arg.items) /\ created < MAX_POSTS_PER_RUN
    /\ \E net \in NetAnswers :
          LET payload == build_article(arg.items[Len(calls) + 1])
              r == _post_to_wordpress(payload, wp_posts, net)
              o == ItemOutcome(r)
          IN /\ wp_posts' = r.posts
             /\ calls' = Append(calls, CallEntry(r))
             /\ created' = created + o.inc
             /\ IF o.go = "raise"
                THEN pc' = "raised" /\ exc' = "Exception"
                ELSE UNCHANGED <<pc, exc>>
    /\ UNCHANGED <<ScraperVars, entry, MAX_POSTS_PER_RUN, arg, ret, scraped, posted, handed>>

\* the loop ends (items exhausted or cap reached): return created
PublishItemsReturn ==
    /\ pc = "publish_items"
    /\ Len(calls) >= Len(arg.items) \/ created >= MAX_POSTS_PER_RUN
    /\ ret' = created
    /\ pc' = "returned"
    /\ UNCHANGED <<ScraperVars, entry, exc, MAX_POSTS_PER_RUN, arg, calls, created,
                   wp_posts, scraped, posted, handed>>

\* publish_to_wordpress with one payload: 1 when posted, 0 when skipped or failed
PublishSingle ==
    /\ pc = "publish_single"
    /\ \E net \in NetAnswers :
          LET r == _post_to_wordpress(arg.payload, wp_posts, net)
          IN /\ wp_posts' = r.posts
             /\ calls' = Append(calls, CallEntry(r))
             /\ ret' = IF r.result = "created" THEN 1 ELSE 0
    /\ pc' = "returned"
    /\ UNCHANGED <<ScraperVars, entry, exc, MAX_POSTS_PER_RUN, arg, created, scraped,
                   posted, handed>>

NextPublish ==
    \/ PublishToWordpress
    \/ PublishItem
    \/ PublishItemsReturn
    \/ PublishSingle

SpecPublish == InitPublish /\ [][NextPublish]_vars

\* ------------------------------------------------------ main.process_new_entries
\* record.get(key) on the dict of one scraped record
DictGet(record, key) == IF key \in DOMAIN record THEN record[key] ELSE None

\* main._is_unknown
_is_unknown(text) ==
    IF ~Truthy(text) THEN TRUE
    ELSE LET t == Lower(Strip(text))
         IN StartsWith(t, <<"o", "n", "b", "e", "k", "e", "n", "d", "e">>)
                \/ t \in {<<>>, <<"n", ".", "n", ".", "b", ".">>, <<"o", "n", "b", "e", "k", "e", "n", "d">>}

\* main._has_valid_pct: _pct_re.search finds \d+(?:[.,]\d+)?% exactly when
\* some digit stands right before a percent sign
_has_valid_pct(s) ==
    IF ~Truthy(s) THEN FALSE
    ELSE \E i \in 1..(Len(s) - 1) : IsDigit(s[i]) /\ s[i + 1] = "%"

\* the two skip tests of the loop body
SkippedByMain(record) ==
    \/ _is_unknown(DictGet(record, "melder")) \/ _is_unknown(DictGet(record, "emittent"))
    \/ ~_has_valid_pct(DictGet(record, "kapitaal_pct"))

InitMain ==
    /\ entry = "process_new_entries" /\ pc = "process_new_entries"
    /\ impl = "afm_scraper"
    /\ BYPASS_FILTER \in BOOLEAN
    /\ soup_tables = <<>> /\ soup_links = <<>>
    /\ tbl = NoTable /\ csv_url = None /\ hmap = EmptyMap
    /\ rows = <<>> /\ seen = 0 /\ results = <<>>
    /\ exc = "none" /\ caught = "none" /\ csv_text = <<>>
    /\ page_shape = "unread" /\ strategyB = FALSE
    /\ strftime_pads = FALSE
    /\ fn_in = None /\ fn_out = None
    /\ MAX_POSTS_PER_RUN \in 1..MaxCap
    /\ arg = [kind |-> "none"] /\ calls = <<>> /\ created = 0 /\ ret = -1
    /\ wp_posts = NoPosts
    /\ scraped = <<>> /\ posted = 0 /\ handed = <<>>

\* assert_wp_env: RuntimeError when a credential is not set, else on to
\* fetch_afm_table
MainAssertEnv ==
    /\ pc = "process_new_entries"
    /\ \E missing \in BOOLEAN :
          IF missing
          THEN pc' = "raised" /\ exc' = "RuntimeError"
          ELSE pc' = "start" /\ exc' = exc
    /\ UNCHANGED <<ScraperVars, entry, Publisher>>

\* scraped = fetch_afm_table() has returned; posted = 0
MainFetched ==
    /\ entry = "process_new_entries" /\ pc = "done"
    /\ scraped' = results
    /\ posted' = 0
    /\ pc' = "main_loop"
    /\ UNCHANGED <<ScraperVars, entry, exc, MAX_POSTS_PER_RUN, arg, calls, created, ret,
                   wp_posts, handed>>

\* one pass of the loop over scraped: the two skip tests, else build_article,
\* publish_to_wordpress(article) and posted += 1 whatever it returned
MainRecord ==
    /\ pc = "main_loop"
    /\ scraped # <<>> /\ posted < MAX_POSTS_PER_RUN
    /\ LET record == Head(scraped)
       IN IF SkippedByMain(record)
          THEN UNCHANGED <<arg, calls, wp_posts, posted, handed>>
          ELSE \E net \in NetAnswers :
                  LET article == build_article(record)
                      r == _post_to_wordpress(article, wp_posts, net)
                  IN /\ arg' = [kind |-> "dict", payload |-> article]
                     /\ wp_posts' = r.posts
                     /\ calls' = Append(calls, CallEntry(r))
                     /\ posted' = posted + 1
                     /\ handed' = Append(handed, record)
    /\ scraped' = Tail(scraped)
    /\ UNCHANGED <<ScraperVars, entry, pc, exc, MAX_POSTS_PER_RUN, created, ret>>

\* the loop is over: print Processed {posted}
MainDone ==
    /\ pc = "main_loop"
    /\ scraped = <<>> \/ posted >= MAX_POSTS_PER_RUN
    /\ ret' = posted
    /\ pc' = "main_done"
    /\ UNCHANGED <<ScraperVars, entry, exc, MAX_POSTS_PER_RUN, arg, calls, created,
                   wp_posts, scraped, posted, handed>>

NextMain ==
    \/ MainAssertEnv
    \/ ScrapeGetPage
    \/ PickBestTable
    \/ HeaderMapStep
    \/ TableRow
    \/ TableReturn
    \/ FindDownloadLink
    \/ CsvGet
    \/ CsvRow
    \/ CsvReturn
    \/ MainFetched
    \/ MainRecord
    \/ MainDone

SpecMain == InitMain /\ [][NextMain]_vars

\* ------------------------------------------------------------------ claims
\* C1: every record emitted by an extractor (_parse_from_table, _parse_csv,
\* _parse_csv_rows) has a non-empty issuer, a non-empty short_seller and a
\* non-empty net_short_pct; a row lacking one of them after the fallbacks
\* adds no record.
C1_MandatoryFields ==
    \A i \in 1..Len(results) :
        /\ results[i].issuer # <<>>
        /\ results[i].short_seller # <<>>
        /\ results[i].net_short_pct # <<>>

\* an extractor has kept a record and has dropped a row
C1_Witness ==
    /\ pc \in {"table_rows", "csv_rows", "ab_csv_rows"}
    /\ results # <<>>
    /\ seen > Len(results)

\* C2: for a table whose header row carries the register's own five column
\* names, _header_map resolves all five roles, each to the column of its
\* header, by header matching alone, and returns before the first-row
\* heuristic.
C2_HeaderMatchingAlone ==
    (pc = "table_rows" /\ tbl.hcell # "none" /\ tbl.heads = RegisterHeads)
        => /\ hmap = [r \in Roles |-> CASE r = "issuer" -> 0
                                        [] r = "isin" -> 1
                                        [] r = "short_seller" -> 2
                                        [] r = "net_short_pct" -> 3
                                        [] r = "date" -> 4]
           /\ ~strategyB

Scenario1Text ==
    JoinLines(<<<<"N", "a", "a", "m", " ", "v", "a", "n", " ", "d", "e", " ", "e", "m", "i", "t", "t", "e", "n", "t", ";", "P", "o", "s", "i", "t", "i", "e", " ", "h", "o", "u", "d", "e", "r", ";", "N", "e", "t", "t", "o", " ", "S", "h", "o", "r", "t", "p", "o", "s", "i", "t", "i", "e", ";", "P", "o", "s", "i", "t", "i", "e", "d", "a", "t", "u", "m">>,
                <<"A", "c", "m", "e", " ", "N", "V", ";", "F", "u", "n", "d", " ", "X", ";", "1", ",", "2", "3", ";", "2", "0", "2", "5", "-", "0", "1", "-", "1", "5", " ", "0", "0", ":", "0", "0", ":", "0", "0">>>>)

\* C3: parsing the CSV text of end-to-end scenario 1 yields exactly one
\* record, with issuer "Acme NV", filer "Fund X", percentage 1.23 and ISO
\* date 2025-01-15.
C3_ScenarioOneRecord ==
    (pc = "done" /\ csv_text = Scenario1Text)
        => /\ Len(results) = 1
           /\ results[1].issuer = <<"A", "c", "m", "e", " ", "N", "V">>
           /\ results[1].short_seller = <<"F", "u", "n", "d", " ", "X">>
           /\ NumEq(results[1].net_short_pct_num, Num(FALSE, 123, 2))
           /\ results[1].position_date_iso = <<"2", "0", "2", "5", "-", "0", "1", "-", "1", "5">>

\* the filer cell of the row the running extractor is about to read: the
\* third <td> of a table row, the second field of a CSV row
NextFilerCell ==
    IF pc = "table_rows" THEN _clean_text(Head(rows)[3]) ELSE _clean_text(Head(rows)[2][2])

\* C4: a row whose filer cell is empty increments the seen counter of the
\* extractor and adds no record.
C4_EmptyFilerDropped ==
    [][(/\ pc \in {"table_rows", "csv_rows", "ab_csv_rows"}
        /\ rows # <<>>
        /\ NextFilerCell = <<>>)
          => (seen' = seen + 1 /\ results' = results)]_vars

\* C5: _pct_to_float returns a number within [0, 100] for every input
\* string (0.0 for unparsable or out-of-range input).
C5_PercentWithinBounds ==
    pc \in {"pct_afm", "pct_ab"} => InPercentRange(fn_out)

IsoText(y, m, d) == Pad4(y) \o <<"-">> \o Pad2(m) \o <<"-">> \o Pad2(d)
TwoDigitFields ==
    fn_in.text = WriteDate(fn_in.y, fn_in.m, fn_in.d, fn_in.fmt, TRUE) \o fn_in.suffix

\* C6 (as stated): for every calendar date, _parse_date returns the ISO
\* string YYYY-MM-DD of that date whichever of the formats day-month-year,
\* year-month-day, day/month/year expresses it, with or without a time suffix.
C6_SameIsoAnyFormat ==
    pc \in {"date_afm", "date_ab"} => fn_out[2] = IsoText(fn_in.y, fn_in.m, fn_in.d)

\* C6 (amended): the same, for dates of the years from 1000 on that are
\* written with a two-digit day and month whenever a time suffix follows.
C6_SameIsoPaddedFormats ==
    (/\ pc \in {"date_afm", "date_ab"}
     /\ fn_in.y >= 1000
     /\ fn_in.suffix = <<>> \/ TwoDigitFields)
        => fn_out[2] = IsoText(fn_in.y, fn_in.m, fn_in.d)

\* a year-month-day date with a time suffix has been parsed to its ISO string
C6_Witness ==
    /\ pc = "date_afm"
    /\ fn_in.fmt = "%Y-%m-%d" /\ fn_in.suffix # <<>> /\ fn_in.y >= 1000
    /\ fn_out[2] = IsoText(fn_in.y, fn_in.m, fn_in.d)

UidFields(r) == <<r.issuer, r.short_seller, r.position_date_iso, r.net_short_pct>>
DifferInOne(a, b) == Cardinality({k \in 1..4 : UidFields(a)[k] # UidFields(b)[k]}) = 1

\* C7: the unique_id of every emitted record is the truncated SHA-256 of
\* issuer|short_seller|position_date_iso|net_short_pct of that same record;
\* records with the same four fields carry the same id, and records that
\* differ in exactly one of the four fields were hashed from different strings.
C7_UniqueIdOfOwnFields ==
    /\ \A i \in 1..Len(results) :
          results[i].unique_id =
              [sha256_16 |-> results[i].issuer \o <<"|">> \o results[i].short_seller
                               \o <<"|">> \o results[i].position_date_iso
                               \o <<"|">> \o results[i].net_short_pct]
    /\ \A i, j \in 1..Len(results) :
          /\ UidFields(results[i]) = UidFields(results[j])
                => results[i].unique_id = results[j].unique_id
          /\ DifferInOne(results[i], results[j])
                => results[i].unique_id # results[j].unique_id

\* two records that differ in one of the four fields only have been emitted
C7_Witness ==
    /\ Len(results) = 2
    /\ DifferInOne(results[1], results[2])

\* C8: with the approval filter enabled, consulting is_approved_company for a
\* complete row never raises out of _parse_from_table or _parse_csv.
C8_FilterNeverRaises ==
    ~BYPASS_FILTER => (exc # "TypeError" /\ caught # "TypeError")

\* C9: when a GET is answered with HTTP 403, scrape_short_positions returns
\* an empty list and raises nothing.
C9_ForbiddenReturnsEmpty ==
    /\ exc # "HTTPError"
    /\ caught = "HTTPError" => (pc = "done" /\ results = <<>>)

\* C10: when the page holds no table, or a table without data rows,
\* scrape_short_positions does not raise, and without a CSV link it returns
\* an empty list.
C10_NoDataSoftFailure ==
    (impl = "afm_scraper" /\ page_shape \in {"no_table", "no_rows"})
        => /\ pc # "raised"
           /\ (pc = "done" /\ csv_url = None) => results = <<>>

\* C14: the records a run hands downstream are reconciled: the output holds
\* exactly one record for each (issuer, filer) pair, however many filings of
\* the run share that pair.
C14_OneRecordPerPair ==
    pc = "done" =>
        \A i, j \in 1..Len(results) :
            (results[i].issuer = results[j].issuer
                /\ results[i].short_seller = results[j].short_seller) => i = j

\* C15: in the column map _header_map returns, no two roles hold the same
\* column index.
C15_OneRolePerColumn ==
    pc = "table_rows" =>
        \A r1, r2 \in DOMAIN hmap : r1 # r2 => hmap[r1] # hmap[r2]

\* digits, an optional decimal separator with more digits, an optional
\* trailing % (a bare number within (0, 50] has this shape too)
IsPercentShaped(t) ==
    LET s == Strip(IF t # <<>> /\ t[Len(t)] = "%" THEN SubSeq(t, 1, Len(t) - 1) ELSE t)
        parts == SplitOn(Replace(s, ",", <<".">>), ".")
    IN /\ Len(parts) \in {1, 2}
       /\ \A k \in 1..Len(parts) : parts[k] # <<>> /\ AllDigits(parts[k])

FirstPercentShaped(texts) ==
    SetMin({i \in 1..Len(texts) : IsPercentShaped(texts[i])})

\* C16: when the headers do not resolve the percentage role, _header_map
\* assigns it to the first percentage-shaped cell of the first data row, with
\* or without a % sign; and a row read without a percentage column takes its
\* percentage from its first percentage-shaped cell.
C16_BarePercentageRecognised ==
    (pc = "table_rows" /\ rows # <<>>) =>
        LET texts == MapSeq(_clean_text, Head(rows))
            shaped == \E i \in 1..Len(texts) : IsPercentShaped(texts[i])
            byHeader == "net_short_pct" \in
                            DOMAIN HeaderLoop(MapSeq(Lower, _table_headers(tbl)))
        IN /\ (seen = 0 /\ ~byHeader /\ shaped)
                => /\ "net_short_pct" \in DOMAIN hmap
                   /\ hmap["net_short_pct"] = FirstPercentShaped(texts) - 1
           /\ ("net_short_pct" \notin DOMAIN hmap /\ shaped)
                => TableRowFields(hmap, Head(rows)).net_pct_raw
                       = texts[FirstPercentShaped(texts)]

\* the column (0-based) whose header is one of keys and whose cell is
\* non-empty, -1 when the row has none
HeaderCol(row, keys) ==
    LET hit == {j \in 1..Len(row) :
                   /\ Truthy(row[j][2])
                   /\ \E k \in 1..Len(keys) : Lower(row[j][1]) = Lower(keys[k])}
    IN IF hit = {} THEN -1 ELSE SetMin(hit) - 1

\* the columns the percentage, date and ISIN of a row are read from
ValueCols(row) ==
    LET h == _pick_by_heuristics(row)
        col(keys, idx) == IF HeaderCol(row, keys) >= 0 THEN HeaderCol(row, keys) ELSE idx
    IN {col(SYM_PCT, h.pct_idx), col(SYM_DATE, h.date_idx), col(SYM_ISIN, h.isin_idx)} \ {-1}

\* C17: when _parse_csv_rows emits a record whose issuer or filer was filled
\* from the two longest remaining cells, that cell is not the cell of the
\* row's percentage, date or ISIN, and issuer and filer are different cells.
C17_FallbackCellsDistinct ==
    [][(pc = "ab_csv_rows" /\ rows # <<>> /\ results' # results) =>
          LET f == AbRowFields(Head(rows))
              i == IF f.from.issuer >= 0 THEN f.from.issuer
                   ELSE HeaderCol(Head(rows), SYM_ISSUER)
              s == IF f.from.short_seller >= 0 THEN f.from.short_seller
                   ELSE HeaderCol(Head(rows), SYM_HOLDER)
          IN /\ i # s
             /\ i \notin ValueCols(Head(rows))
             /\ s \notin ValueCols(Head(rows))]_vars

\* the header text _table_headers returned for the column of a role
HeaderOf(role) ==
    IF role \in DOMAIN hmap /\ hmap[role] < Len(_table_headers(tbl))
    THEN _table_headers(tbl)[hmap[role] + 1] ELSE None

\* C18: no record _parse_from_table returns has the header texts of its
\* issuer, filer and percentage columns as its issuer, short_seller and
\* net_short_pct, and the first-row heuristic of _header_map reads a row
\* other than the header row.
C18_HeaderRowNotEmitted ==
    pc = "table_rows" =>
        /\ \A k \in 1..Len(results) :
              ~ /\ results[k].issuer = HeaderOf("issuer")
                /\ results[k].short_seller = HeaderOf("short_seller")
                /\ results[k].net_short_pct = HeaderOf("net_short_pct")
        /\ (strategyB /\ _iter_rows(tbl) # <<>> /\ tbl.hcell # "none")
              => MapSeq(_clean_text, _iter_rows(tbl)[1]) # _table_headers(tbl)

\* the positions of the history of calls at which the endpoint created a post
SentCalls == {k \in 1..Len(calls) : calls[k].sent}

\* the duplicate search of every call so far was answered without error
ChecksCompleted == \A k \in 1..Len(calls) : calls[k].check \in {"ok", "none"}

\* C11: a failed publish of one item never aborts the batch: called with a
\* list or with one payload, publish_to_wordpress / publish_items never raise,
\* and when the loop has returned every item was attempted unless the cap of
\* created posts was reached
C11_FailedItemDoesNotAbort ==
    arg.kind \in {"list", "dict"} =>
        /\ pc # "raised"
        /\ (pc = "returned" /\ arg.kind = "list") =>
              (Len(calls) = Len(arg.items) \/ created >= MAX_POSTS_PER_RUN)
        /\ (pc = "returned" /\ arg.kind = "dict") => Len(calls) = 1

\* the loop returned after a failed item was followed by another attempt
C11_Witness ==
    /\ pc = "returned" /\ arg.kind = "list"
    /\ \E k \in 1..Len(calls) : calls[k].result = "raised" /\ k < Len(calls)

\* C12 (as stated): when publish_items has returned, the posts created on
\* the endpoint in the run are at most MAX_POSTS_PER_RUN and the returned
\* count equals their number
C12_CountEqualsCreated ==
    (pc = "returned" /\ arg.kind = "list") =>
        /\ Cardinality(SentCalls) <= MAX_POSTS_PER_RUN
        /\ ret = Cardinality(SentCalls)

\* C13 (as stated): at most one post exists per unique_id
C13_OnePostPerUid ==
    \A u \in PubUids : PostCount(wp_posts, u) <= 1

\* C13 (amended): while every duplicate search was answered without error at
\* most one post exists per unique_id; a skipped call sent no POST, found the
\* post by a completed search, and is not counted in the returned count
C13_OnePostPerUidWhenChecked ==
    /\ ChecksCompleted => \A u \in PubUids : PostCount(wp_posts, u) <= 1
    /\ \A k \in 1..Len(calls) :
          calls[k].result = "skipped" =>
              /\ ~calls[k].sent /\ calls[k].check = "ok"
              /\ calls[k].uid # <<>> /\ PostCount(wp_posts, calls[k].uid[1]) >= 1
    /\ pc = "returned" =>
          ret <= Cardinality({k \in 1..Len(calls) : calls[k].result = "created"})

\* a run that created a post for a uid and then skipped the same uid
C13_Witness ==
    /\ pc = "returned" /\ ChecksCompleted
    /\ \E j, k \in 1..Len(calls) :
          /\ j < k /\ calls[j].uid = calls[k].uid
          /\ calls[j].result = "created" /\ calls[k].result = "skipped"

\* the records process_new_entries is to hand on: those fetch_afm_table
\* returned, in scraped order, up to MAX_POSTS_PER_RUN of them
DueRecords ==
    SubSeq(results, 1, IF Len(results) < MAX_POSTS_PER_RUN THEN Len(results)
                       ELSE MAX_POSTS_PER_RUN)

\* C19 (as stated): when process_new_entries has ended, every record that
\* fetch_afm_table returned was handed to build_article and
\* publish_to_wordpress, in scraped order, up to MAX_POSTS_PER_RUN; none
\* was skipped as unknown or as lacking a valid percentage
C19_EveryRecordHandedOn ==
    pc = "main_done" => handed = DueRecords

====
